---- MODULE Spec2Model ----
(***************************************************************************)
(* The layout algebra of the `data` package: Atom, Components, Structure   *)
(* and the Field catalog (src/data/__init__.py), with the pair tests of    *)
(* src/tests/test_data.py.                                                 *)
(*                                                                         *)
(* Python values are modelled as follows.                                  *)
(*   None            <<>>            (an absent optional value)            *)
(*   a present value <<v>>           (Some(v))                             *)
(*   str             a sequence of one-character strings                   *)
(*   tuple           a sequence                                            *)
(*   Atom            [cls |-> "Atom", typecode, shape]                     *)
(*   Components      [cls |-> "Components", parts, names, shape]           *)
(*   Structure       [components, endian, offset, padding]                 *)
(* A call either returns, Return(v), or raises, Raise(exc).                *)
(***************************************************************************)
EXTENDS Integers, Sequences, FiniteSets, TLC

\* ------------------------------------------------------------------ bounds
\* Largest repeat count tried.
MaxCount == 2
\* Largest total weight of the three registers (see Weight).
MaxWeight == 10

\* ------------------------------------------------------- Python scaffolding
None == <<>>
Some(v) == <<v>>

Return(v) == [ok |-> TRUE, val |-> v]
Raise(e) == [ok |-> FALSE, exc |-> e]

RECURSIVE Concat(_)
\* ''.join(seq of str)
Concat(ss) == IF ss = <<>> THEN <<>> ELSE Head(ss) \o Concat(Tail(ss))

Digit(d) == <<"0", "1", "2", "3", "4", "5", "6", "7", "8", "9">>[d + 1]

RECURSIVE NatStr(_)
NatStr(n) == IF n < 10 THEN <<Digit(n)>> ELSE NatStr(n \div 10) \o <<Digit(n % 10)>>

\* str(int)
IntStr(n) == IF n < 0 THEN <<"-">> \o NatStr(0 - n) ELSE NatStr(n)

\* f'{name:{width}}': a str is left-aligned and padded with spaces to width.
Pad(s, width) == s \o [k \in 1 .. (IF width > Len(s) THEN width - Len(s) ELSE 0) |-> " "]

RECURSIVE MaxOf(_)
\* max(...) of a non-empty sequence of integers
MaxOf(ns) ==
    IF Len(ns) = 1 THEN Head(ns)
    ELSE LET m == MaxOf(Tail(ns)) IN IF Head(ns) >= m THEN Head(ns) ELSE m

RECURSIVE SplitLines(_)
\* str.splitlines() for text whose only line boundary is "\n"
SplitLines(s) ==
    IF s = <<>> THEN <<>>
    ELSE LET idx == {k \in 1 .. Len(s) : s[k] = "\n"} IN
         IF idx = {} THEN <<s>>
         ELSE LET k == CHOOSE j \in idx : \A j2 \in idx : j <= j2 IN
              <<SubSeq(s, 1, k - 1)>> \o SplitLines(SubSeq(s, k + 1, Len(s)))

\* s.startswith(p)
StartsWith(s, p) == Len(p) <= Len(s) /\ SubSeq(s, 1, Len(p)) = p

\* p in s
Contains(s, p) == \E k \in 0 .. (Len(s) - Len(p)) : SubSeq(s, k + 1, k + Len(p)) = p

\* ------------------------------------------------------------ _ArrayElement
\* Atom.element_size: the size table
TypeSize ==
    "b" :> 1 @@ "B" :> 1 @@ "h" :> 2 @@ "H" :> 2 @@ "i" :> 4 @@ "I" :> 4 @@
    "q" :> 8 @@ "Q" :> 8 @@ "?" :> 1 @@ "x" :> 1 @@ "s" :> 1 @@ "e" :> 2 @@
    "f" :> 4 @@ "d" :> 8

\* Atom.__str__: the type names
TypeName ==
    "b" :> <<"u", "n", "s", "i", "g", "n", "e", "d", " ", "b", "y", "t", "e">> @@
    "B" :> <<"s", "i", "g", "n", "e", "d", " ", "b", "y", "t", "e">> @@
    "h" :> <<"u", "n", "s", "i", "g", "n", "e", "d", " ", "2", "-", "b", "y", "t", "e", "s">> @@
    "H" :> <<"s", "i", "g", "n", "e", "d", " ", "2", "-", "b", "y", "t", "e", "s">> @@
    "i" :> <<"u", "n", "s", "i", "g", "n", "e", "d", " ", "4", "-", "b", "y", "t", "e", "s">> @@
    "I" :> <<"s", "i", "g", "n", "e", "d", " ", "4", "-", "b", "y", "t", "e", "s">> @@
    "q" :> <<"u", "n", "s", "i", "g", "n", "e", "d", " ", "8", "-", "b", "y", "t", "e", "s">> @@
    "Q" :> <<"s", "i", "g", "n", "e", "d", " ", "8", "-", "b", "y", "t", "e", "s">> @@
    "?" :> <<"b", "o", "o", "l">> @@
    "x" :> <<"<", "i", "g", "n", "o", "r", "e", "d", ">">> @@
    "s" :> <<"t", "e", "x", "t">> @@
    "e" :> <<"h", "a", "l", "f", "-", "f", "l", "o", "a", "t">> @@
    "f" :> <<"f", "l", "o", "a", "t">> @@
    "d" :> <<"d", "o", "u", "b", "l", "e">>

\* Atom(typecode, shape)
Atom(typecode, shape) == [cls |-> "Atom", typecode |-> typecode, shape |-> shape]

\* A faulty variant of Components: the name count is not checked.
ComponentsUnchecked(parts, names, shape) ==
    Return([cls |-> "Components", parts |-> parts,
            names |-> IF names = None THEN [k \in 1 .. Len(parts) |-> None] ELSE names[1],
            shape |-> shape])

\* Components(parts, names, shape): names is None or Some(sequence of labels)
Components(parts, names, shape) ==
    IF names = None
    THEN Return([cls |-> "Components", parts |-> parts,
                 names |-> [k \in 1 .. Len(parts) |-> None], shape |-> shape])
    ELSE IF Len(names[1]) # Len(parts)
    THEN Raise("ValueError")
    ELSE Return([cls |-> "Components", parts |-> parts,
                 names |-> names[1], shape |-> shape])

RECURSIVE ProductDropLast(_)
\* A faulty variant of Product: the loop stops before the last dimension.
ProductDropLast(shape) ==
    IF Len(shape) <= 1 THEN 1 ELSE Head(shape) * ProductDropLast(Tail(shape))

RECURSIVE Product(_)

\* the loop of _ArrayElement.size: result *= dimension, for each dimension
Product(shape) == IF shape = <<>> THEN 1 ELSE Head(shape) * Product(Tail(shape))

RECURSIVE size(_)
RECURSIVE SumSizes(_)
\* A faulty variant of SumSizes: only the first part is counted.
SumSizesFirstOnly(parts) == IF parts = <<>> THEN 0 ELSE size(Head(parts))

\* sum(p.size for p in parts)
SumSizes(parts) == IF parts = <<>> THEN 0 ELSE size(Head(parts)) + SumSizes(Tail(parts))

\* Atom.element_size / Components.element_size
element_size(x) == IF x.cls = "Atom" THEN TypeSize[x.typecode] ELSE SumSizes(x.parts)

\* _ArrayElement.size
size(x) == element_size(x) * Product(x.shape)

\* A faulty variant of normalize: a Components is wrapped whatever its shape.
normalizeAlwaysWrap(x) == Components(<<x>>, None, <<>>).val

\* A faulty variant of normalize: a shaped Components is not wrapped.
normalizeNeverWrap(x) ==
    IF x.cls = "Atom" THEN Components(<<x>>, None, <<>>).val ELSE x

\* Atom._normalize / Components._normalize
normalize(x) ==
    IF x.cls = "Atom" THEN Components(<<x>>, None, <<>>).val
    ELSE IF x.shape = <<>> THEN x
    ELSE Components(<<x>>, None, <<>>).val

\* _ArrayElement.__add__
element_add(self, other) ==
    LET x == normalize(self)
        y == normalize(other)
    IN  Components(x.parts \o y.parts, Some(x.names \o y.names), <<>>)

\* A faulty variant of element_mul: the count replaces the last dimension.
element_mulReplace(self, count) ==
    IF self.cls = "Atom"
    THEN Return(Atom(self.typecode, <<count>>))
    ELSE Components(self.parts, Some(self.names), <<count>>)

\* Atom.__mul__ / Components.__mul__
element_mul(self, count) ==
    IF self.cls = "Atom"
    THEN Return(Atom(self.typecode, self.shape \o <<count>>))
    ELSE Components(self.parts, Some(self.names), self.shape \o <<count>>)

\* Components.group; an Atom has no attribute group
element_group(self, name) ==
    IF self.cls = "Atom" THEN Raise("AttributeError")
    ELSE Components(<<self>>, Some(<<name>>), <<>>)

\* A faulty variant of element_named: the part count is not checked.
element_namedUnchecked(self, name) ==
    IF self.cls = "Atom" THEN Raise("AttributeError")
    ELSE ComponentsUnchecked(self.parts, Some(<<name>>), self.shape)

\* Components.named; an Atom has no attribute named
element_named(self, name) ==
    IF self.cls = "Atom" THEN Raise("AttributeError")
    ELSE IF Len(self.parts) # 1 THEN Raise("ValueError")
    ELSE Components(self.parts, Some(<<name>>), self.shape)

\* Components.with_names; an Atom has no attribute with_names
element_with_names(self, names) ==
    IF self.cls = "Atom" THEN Raise("AttributeError")
    ELSE Components(self.parts, names, self.shape)

\* ---------------------------------------------------------------- Structure
\* Structure(components, endian, offset=0, padding=0)
Structure(components, endian) ==
    [components |-> components, endian |-> endian, offset |-> 0, padding |-> 0]

\* Structure.data_size
data_size(m) == size(m.components)

\* Structure.size
structure_size(m) == m.offset + m.padding + data_size(m)

\* the dict of Structure.__add__, keyed by self.endian + other.endian
EndianTable ==
    ">|" :> ">" @@ "<|" :> "<" @@ "||" :> "|" @@ ">>" :> ">" @@ "<<" :> "<" @@
    "|>" :> ">" @@ "|<" :> "<"

\* rewraps the outcome r of an operation on the root as a Structure
Wrap(r, endian) == IF r.ok THEN Return(Structure(r.val, endian)) ELSE r

\* Structure.group
structure_group(self, name) == Wrap(element_group(self.components, name), self.endian)

\* Structure.named
structure_named(self, name) == Wrap(element_named(self.components, name), self.endian)

\* Structure.with_names
structure_with_names(self, names) ==
    Wrap(element_with_names(self.components, names), self.endian)

\* A faulty variant of structure_add: the endianness of the left operand is kept.
structure_addKeepLeft(self, other) ==
    Wrap(element_add(self.components, other.components), self.endian)

\* Structure.__add__
structure_add(self, other) ==
    LET key == self.endian \o other.endian IN
    IF key \notin DOMAIN EndianTable THEN Raise("ValueError")
    ELSE Wrap(element_add(self.components, other.components), EndianTable[key])

\* Structure.__mul__
structure_mul(self, count) == Wrap(element_mul(self.components, count), self.endian)

\* -------------------------------------------------------------- the catalog
\* class Field: member name :> (format code, endian)
Field ==
    "b" :> <<"b", "|">> @@ "B" :> <<"B", "|">> @@ "h" :> <<"h", "|">> @@
    "H" :> <<"H", "|">> @@ "i" :> <<"i", "|">> @@ "I" :> <<"I", "|">> @@
    "l" :> <<"i", "|">> @@ "L" :> <<"I", "|">> @@ "q" :> <<"q", "|">> @@
    "Q" :> <<"Q", "|">> @@ "_" :> <<"?", "|">> @@ "e" :> <<"e", "|">> @@
    "f" :> <<"f", "|">> @@ "d" :> <<"d", "|">> @@ "x" :> <<"x", "|">> @@
    "s" :> <<"s", "|">> @@ "c" :> <<"s", "|">> @@
    "s1" :> <<"b", "<">> @@ "S1" :> <<"b", ">">> @@ "u1" :> <<"B", "<">> @@
    "U1" :> <<"B", ">">> @@ "s2" :> <<"h", "<">> @@ "S2" :> <<"h", ">">> @@
    "u2" :> <<"H", "<">> @@ "U2" :> <<"H", ">">> @@ "s4" :> <<"i", "<">> @@
    "S4" :> <<"i", ">">> @@ "u4" :> <<"I", "<">> @@ "U4" :> <<"I", ">">> @@
    "s8" :> <<"q", "<">> @@ "S8" :> <<"q", ">">> @@ "u8" :> <<"Q", "<">> @@
    "U8" :> <<"Q", ">">> @@ "b1" :> <<"?", "<">> @@ "B1" :> <<"?", ">">> @@
    "f2" :> <<"e", "<">> @@ "F2" :> <<"e", ">">> @@ "f4" :> <<"f", "<">> @@
    "F4" :> <<"f", ">">> @@ "f8" :> <<"d", "<">> @@ "F8" :> <<"d", ">">> @@
    "p1" :> <<"x", "<">> @@ "P1" :> <<"x", ">">> @@ "t1" :> <<"s", "<">> @@
    "T1" :> <<"s", ">">>

\* Field.__init__: the member called name
Member(name) == Structure(Atom(Field[name][1], <<>>), Field[name][2])

\* --------------------------------------------------------------- rendering
\* _ArrayElement.shapestr
shapestr(x) ==
    Concat([k \in 1 .. Len(x.shape) |-> <<"[">> \o IntStr(x.shape[k]) \o <<"]">>])

\* Atom.__str__
atom_str(x) == TypeName[x.typecode] \o shapestr(x)

RECURSIVE Join(_, _)
\* joiner.join(seq of str)
Join(joiner, ss) ==
    IF ss = <<>> THEN <<>>
    ELSE IF Len(ss) = 1 THEN Head(ss)
    ELSE Head(ss) \o joiner \o Join(joiner, Tail(ss))

\* A faulty variant of inames: positions are counted from one.
inamesFromOne(x) ==
    [k \in 1 .. Len(x.names) |-> IF x.names[k] = None THEN IntStr(k) ELSE x.names[k][1]]

\* the list inames of Components._fields: str(i) for an unnamed part
inames(x) ==
    [k \in 1 .. Len(x.names) |-> IF x.names[k] = None THEN IntStr(k - 1) ELSE x.names[k][1]]

RECURSIVE indented(_, _, _)
\* Components._fields, as the sequence of the strings it yields. Its line
\* "name = str(i) if name is None else name" changes nothing: no name of inames
\* is None.
fields(x, amount, include_shapestr) ==
    LET width == MaxOf([k \in 1 .. Len(x.parts) |-> Len(inames(x)[k])])
    IN  (IF include_shapestr THEN <<shapestr(x)>> ELSE <<>>) \o
        [k \in 1 .. Len(x.parts) |->
            Pad(inames(x)[k], width) \o <<":", " ">> \o
            indented(x.parts[k], amount + width + 2, TRUE)]

\* Atom._indented / Components._indented
indented(x, amount, include_shapestr) ==
    IF x.cls = "Atom" THEN atom_str(x)
    ELSE Join(<<"\n">> \o [k \in 1 .. amount |-> " "], fields(x, amount, include_shapestr))

\* the dict edesc of Structure.__str__
EndianWord ==
    "|" :> <<"u", "n", "k", "n", "o", "w", "n">> @@
    "<" :> <<"l", "i", "t", "t", "l", "e">> @@
    ">" :> <<"b", "i", "g">>

\* Structure.__str__
structure_str(m) ==
    LET endian == EndianWord[m.endian] \o
                  <<"-", "e", "n", "d", "i", "a", "n", " ", "m", "a", "t", "c", "h", "e", "r", " ", "f", "o", "r">>
        embed_info == <<"(", "o", "f", "f", "s", "e", "t", "=">> \o IntStr(m.offset) \o
                      <<",", " ", "p", "a", "d", "d", "i", "n", "g", "=">> \o
                      IntStr(m.padding) \o <<")">>
    IN  IF m.components.cls = "Atom"
        THEN endian \o <<" ">> \o atom_str(m.components) \o
             <<" ", "(", "a", "t", "o", "m", "i", "c", ")", " ">> \o embed_info
        ELSE endian \o <<" ", "s", "t", "r", "u", "c", "t", "u", "r", "e">> \o
             shapestr(m.components) \o <<" ">> \o embed_info \o <<":", "\n">> \o
             indented(m.components, 0, FALSE)

\* ------------------------------------------------------------------- state
VARIABLES
    reg,      \* the algebra: three program variables, each holding a Structure
    last,     \* the algebra: the statement executed last and how it ended
    assoc,    \* the algebra: None, or the two groupings of reg[1], reg[2], reg[3]
    first,    \* the pair tests: the parameter first (a member name)
    second,   \* the pair tests: the parameter second
    matcher,  \* the pair tests: None, or the outcome of first + second
    lines     \* the pair tests: None, or str(matcher).splitlines()

vars == <<reg, last, assoc, first, second, matcher, lines>>

Regs == 1 .. 3

\* The catalog members the algebra starts from: one per endianness.
Leaves == {"b", "s1", "U2"}

\* The labels tried: None and 'x'.
Labels == {None, Some(<<"x">>)}

\* The repeat counts tried: zero, one and the largest.
RepeatCounts == {0, 1, MaxCount}

\* The name sequences tried on a root with n parts: every sequence of n labels,
\* and the sequences of n - 1 and of n + 1 labels that are all None or all 'x'.
NameSeqs(n) ==
    [1 .. n -> Labels] \cup
    {[k \in 1 .. m |-> l] : m \in {IF n = 0 THEN 0 ELSE n - 1, n + 1}, l \in Labels}

RECURSIVE Weight(_)
RECURSIVE SumWeights(_)
SumWeights(parts) ==
    IF parts = <<>> THEN 0 ELSE Weight(Head(parts)) + SumWeights(Tail(parts))

\* the weight of an element: 2 for each node, 2 for each dimension, 1 for each label
Weight(x) ==
    2 + 2 * Len(x.shape) +
    (IF x.cls = "Atom" THEN 0
     ELSE SumWeights(x.parts) + Cardinality({k \in 1 .. Len(x.names) : x.names[k] # None}))

\* the weight of a register: an unbound one weighs nothing
RegWeight(v) == IF v = None THEN 0 ELSE Weight(v[1].components)

TotalWeight(r) == RegWeight(r[1]) + RegWeight(r[2]) + RegWeight(r[3])

\* the statement executed last, and the exception it raised, if any
Stmt(op, out) == [op |-> op, exc |-> IF out.ok THEN None ELSE Some(out.exc)]

\* a = <the outcome out>: the assignment happens unless the call raised
Assign(out) == IF out.ok THEN [reg EXCEPT ![1] = Some(out.val)] ELSE reg

\* the matcher bound to register t
val(t) == reg[t][1]

PairsIdle == UNCHANGED <<first, second, matcher, lines>>
AlgebraIdle == UNCHANGED <<reg, last, assoc>>

\* ------------------------------------------------------------- the algebra
\* The program has three variables, reg[1], reg[2] and reg[3], unbound at first.
\* Every statement assigns to reg[1]; Swap brings another variable there.

\* a = data.<f>
Load(f) ==
    /\ reg' = [reg EXCEPT ![1] = Some(Member(f))]
    /\ TotalWeight(reg') <= MaxWeight
    /\ last' = Stmt("load", Return(0))
    /\ assoc' = None
    /\ PairsIdle

\* a, b = b, a
Swap(j) ==
    /\ reg[1] # reg[j]
    /\ reg' = [reg EXCEPT ![1] = reg[j], ![j] = reg[1]]
    /\ last' = Stmt("swap", Return(0))
    /\ assoc' = None
    /\ PairsIdle

\* a = a + b
Add(j) ==
    /\ reg[1] # None
    /\ reg[j] # None
    /\ LET out == structure_add(val(1), val(j)) IN
       /\ reg' = Assign(out)
       /\ TotalWeight(reg') <= MaxWeight
       /\ last' = Stmt("add", out)
    /\ assoc' = None
    /\ PairsIdle

\* a = a * count
Mul(count) ==
    /\ reg[1] # None
    /\ LET out == structure_mul(val(1), count) IN
       /\ reg' = Assign(out)
       /\ TotalWeight(reg') <= MaxWeight
       /\ last' = Stmt("mul", out)
    /\ assoc' = None
    /\ PairsIdle

\* a = a.group(name)
Group(name) ==
    /\ reg[1] # None
    /\ LET out == structure_group(val(1), name) IN
       /\ reg' = Assign(out)
       /\ TotalWeight(reg') <= MaxWeight
       /\ last' = Stmt("group", out)
    /\ assoc' = None
    /\ PairsIdle

\* a = a.named(name)
Named(name) ==
    /\ reg[1] # None
    /\ LET out == structure_named(val(1), name) IN
       /\ reg' = Assign(out)
       /\ TotalWeight(reg') <= MaxWeight
       /\ last' = Stmt("named", out)
    /\ assoc' = None
    /\ PairsIdle

\* a = a.with_names(names)
WithNames(names) ==
    /\ reg[1] # None
    /\ LET out == structure_with_names(val(1), names) IN
       /\ reg' = Assign(out)
       /\ TotalWeight(reg') <= MaxWeight
       /\ last' = Stmt("with_names", out)
    /\ assoc' = None
    /\ PairsIdle

\* x.__add__(y) where x is itself the outcome of an addition
add_outcome(x, y) == IF x.ok THEN structure_add(x.val, y) ELSE x

\* x.__add__(y) where y is itself the outcome of an addition
outcome_add(x, y) == IF y.ok THEN structure_add(x, y.val) ELSE y

\* The variables regrouped: three different ones, or one of them twice.
Triples == {<<1, 2, 3>>, <<1, 1, 2>>, <<1, 2, 1>>, <<2, 1, 1>>}

\* (a + b) + c and a + (b + c), for the matchers bound to the variables tr and for
\* their root elements
Regroup(tr) ==
    /\ assoc = None
    /\ \A k \in 1 .. 3 : reg[tr[k]] # None
    /\ LET a == val(tr[1])
           b == val(tr[2])
           c == val(tr[3])
       IN  assoc' = Some([
              args |-> <<a, b, c>>,
              left |-> add_outcome(structure_add(a, b), c),
              right |-> outcome_add(a, structure_add(b, c)),
              eleft |-> element_add(element_add(a.components, b.components).val,
                                    c.components),
              eright |-> element_add(a.components,
                                     element_add(b.components, c.components).val)])
    /\ last' = Stmt("regroup", Return(0))
    /\ UNCHANGED reg
    /\ PairsIdle

\* The name arguments tried: None and every sequence of NameSeqs.
NameArgs ==
    {None} \cup
    {Some(ns) : ns \in NameSeqs(IF reg[1] = None \/ val(1).components.cls = "Atom" THEN 0
                                ELSE Len(val(1).components.parts))}

Init ==
    /\ reg = [t \in Regs |-> None]
    /\ last = Stmt("init", Return(0))
    /\ assoc = None
    /\ first = None
    /\ second = None
    /\ matcher = None
    /\ lines = None

Next ==
    \/ \E f \in Leaves : Load(f)
    \/ \E j \in {2, 3} : Swap(j)
    \/ \E j \in Regs : Add(j)
    \/ \E count \in RepeatCounts : Mul(count)
    \/ \E name \in Labels : Group(name)
    \/ \E name \in Labels : Named(name)
    \/ \E names \in NameArgs : WithNames(names)
    \/ \E tr \in Triples : Regroup(tr)

Spec == Init /\ [][Next]_vars

\* ---------------------------------------------------------- the pair tests
\* matcher = first + second (test_bad_pairs, test_good_pairs)
TestAdd ==
    /\ matcher = None
    /\ matcher' = Some(structure_add(Member(first), Member(second)))
    /\ UNCHANGED <<first, second, lines>>
    /\ AlgebraIdle

\* lines = str(matcher).splitlines() (test_good_pairs)
TestStr ==
    /\ matcher # None
    /\ matcher[1].ok
    /\ lines = None
    /\ lines' = Some(SplitLines(structure_str(matcher[1].val)))
    /\ UNCHANGED <<first, second, matcher>>
    /\ AlgebraIdle

InitPairs ==
    /\ first \in DOMAIN Field
    /\ second \in DOMAIN Field
    /\ matcher = None
    /\ lines = None
    /\ reg = None
    /\ last = None
    /\ assoc = None

NextPairs == TestAdd \/ TestStr

SpecPairs == InitPairs /\ [][NextPairs]_vars

\* ------------------------------------------------------------------ claims
ValueError == Some("ValueError")

Concrete(e) == e \in {"<", ">"}

\* both endianness tags are concrete and differ
Conflict(e1, e2) == Concrete(e1) /\ Concrete(e2) /\ e1 # e2

\* unknown merged with t gives t, t merged with t gives t
Merged(e1, e2) == IF e1 = "|" THEN e2 ELSE e1

\* the root element of the matcher bound to register t
root(t) == val(t).components

\* C1: a.combine(b) fails with the endian conflict error exactly when both tags are
\* concrete and differ; otherwise it succeeds with the merged endianness (unknown
\* merged with t is t, t merged with t is t), and b.combine(a) has the same outcome.
C1_EndianMerge ==
    [][\A j \in Regs :
          (last'.op = "add" /\ Add(j)) =>
             LET e1 == val(1).endian
                 e2 == val(j).endian
                 back == structure_add(val(j), val(1))
             IN  /\ (last'.exc = ValueError) <=> Conflict(e1, e2)
                 /\ last'.exc \in {None, ValueError}
                 /\ last'.exc = ValueError => reg' = reg
                 /\ last'.exc = None =>
                       /\ val(1)'.endian = Merged(e1, e2)
                       /\ val(1)'.endian = Merged(e2, e1)
                       /\ back.ok
                       /\ back.val.endian = val(1)'.endian
                 /\ back.ok <=> (last'.exc = None)]_vars

\* An addition succeeded and gave a little-endian matcher with a part taken from
\* an unknown-endian member, while a big-endian matcher is bound to another variable.
C1_Witness ==
    /\ last.op = "add"
    /\ last.exc = None
    /\ val(1).endian = "<"
    /\ \E j \in Regs : reg[j] # None /\ val(j).endian = ">"
    /\ Len(root(1).parts) = 2
    /\ root(1).parts[2] = Member("b").components

\* C2: (a + b) + c and a + (b + c) have equal parts, names, shape and size; one
\* grouping fails with an endian conflict exactly when the other does, and neither
\* fails when the endiannesses are pairwise compatible.
C2_Associative ==
    assoc # None =>
       LET l == assoc[1].left
           r == assoc[1].right
           el == assoc[1].eleft
           er == assoc[1].eright
           x == assoc[1].args
       IN  /\ l.ok <=> r.ok
           /\ l.ok <=> (\A i \in 1 .. 3, j \in 1 .. 3 : ~Conflict(x[i].endian, x[j].endian))
           /\ ~l.ok => (l.exc = "ValueError" /\ r.exc = "ValueError")
           /\ l.ok =>
                 /\ l.val.components.parts = r.val.components.parts
                 /\ l.val.components.names = r.val.components.names
                 /\ l.val.components.shape = r.val.components.shape
                 /\ structure_size(l.val) = structure_size(r.val)
                 /\ l.val.endian = r.val.endian
           /\ el.ok /\ er.ok
           /\ el.val.parts = er.val.parts
           /\ el.val.names = er.val.names
           /\ el.val.shape = er.val.shape
           /\ size(el.val) = size(er.val)

\* Both groupings were computed for a scalar a and a repeated composite taken as
\* b and as c: three parts, the second and the third the whole repeated composite.
C2_Witness ==
    /\ assoc # None
    /\ assoc[1].left.ok
    /\ LET x == assoc[1].args
           z == assoc[1].left.val.components
       IN  /\ x[1].components.cls = "Atom" /\ x[1].components.shape = <<>>
           /\ x[2].components.cls = "Components" /\ x[2].components.shape # <<>>
           /\ Len(z.parts) = 3
           /\ z.parts[1] = x[1].components
           /\ z.parts[2] = x[2].components
           /\ z.parts[3] = x[3].components

\* the helper _compatible_endian of the tests
compatible_endian(f, g) ==
    LET e1 == Member(f).endian
        e2 == Member(g).endian
    IN  e1 = e2 \/ e1 = "|" \/ e2 = "|"

\* C3: for catalog entries a, b with compatible endianness, a + b is a matcher of
\* size a.size + b.size whose offset and padding are zero.
C3_PairSize ==
    (matcher # None /\ compatible_endian(first, second)) =>
       /\ matcher[1].ok
       /\ structure_size(matcher[1].val) =
             structure_size(Member(first)) + structure_size(Member(second))
       /\ matcher[1].val.offset = 0
       /\ matcher[1].val.padding = 0
       /\ structure_size(matcher[1].val) =
             matcher[1].val.offset + matcher[1].val.padding + size(matcher[1].val.components)

\* s4 + u2 was computed: a little-endian matcher of size 6.
C3_Witness ==
    /\ matcher # None
    /\ first = "s4"
    /\ second = "u2"
    /\ matcher[1].ok
    /\ structure_size(matcher[1].val) = 6
    /\ matcher[1].val.endian = "<"

PositiveShape(x) == \A k \in 1 .. Len(x.shape) : x.shape[k] > 0

RECURSIVE Elements(_)
\* the element x and every element nested in it
Elements(x) ==
    {x} \cup (IF x.cls = "Atom" THEN {}
              ELSE UNION {Elements(x.parts[k]) : k \in 1 .. Len(x.parts)})

\* C4: repeat(n) with n <= 0 fails with a validation error, and no element with a
\* non-positive entry in its shape is ever produced.
C4_RepeatRejectsNonPositive ==
    [][\A n \in RepeatCounts :
          (last'.op = "mul" /\ Mul(n)) =>
             /\ n <= 0 => (last'.exc = ValueError /\ reg' = reg)
             /\ \A x \in Elements(val(1)'.components) : PositiveShape(x)]_vars

\* every composite has as many names as parts
NamesMatchParts ==
    \A t \in Regs :
       reg[t] # None =>
          \A x \in Elements(root(t)) :
             x.cls = "Components" => Len(x.names) = Len(x.parts)

\* C5: every reachable composite has len(names) = len(parts), and with_names with a
\* name count other than the part count raises ValueError and produces nothing.
C5_NameCount ==
    /\ []NamesMatchParts
    /\ [][\A names \in NameArgs :
             (last'.op = "with_names" /\ WithNames(names) /\ root(1).cls = "Components") =>
                /\ (names # None /\ Len(names[1]) # Len(root(1).parts)) <=>
                      (last'.exc = ValueError)
                /\ last'.exc \in {None, ValueError}
                /\ last'.exc = ValueError => reg' = reg
                /\ last'.exc = None =>
                      /\ Len(val(1)'.components.names) = Len(root(1).parts)
                      /\ val(1)'.components.parts = root(1).parts]_vars

\* with_names was refused on a two-part composite.
C5_Witness ==
    /\ last.op = "with_names"
    /\ last.exc = ValueError
    /\ root(1).cls = "Components"
    /\ Len(root(1).parts) = 2

\* C6: named(name) on a composite raises ValueError exactly when it does not have
\* exactly one part; otherwise the result keeps the part and the shape and its names
\* are (name,).
C6_Named ==
    [][\A name \in Labels :
          (last'.op = "named" /\ Named(name) /\ root(1).cls = "Components") =>
             /\ (last'.exc = ValueError) <=> (Len(root(1).parts) # 1)
             /\ last'.exc \in {None, ValueError}
             /\ last'.exc = ValueError => reg' = reg
             /\ last'.exc = None =>
                   /\ val(1)'.components.cls = "Components"
                   /\ val(1)'.components.parts = root(1).parts
                   /\ Len(val(1)'.components.parts) = 1
                   /\ val(1)'.components.shape = root(1).shape
                   /\ val(1)'.components.names = <<name>>
                   /\ val(1)'.endian = val(1).endian]_vars

\* named('x') succeeded on a one-part composite whose part is a two-part composite.
C6_Witness ==
    /\ last.op = "named"
    /\ last.exc = None
    /\ Len(root(1).parts) = 1
    /\ root(1).names = <<Some(<<"x">>)>>
    /\ root(1).parts[1].cls = "Components"
    /\ Len(root(1).parts[1].parts) = 2

\* C7: group, named and with_names on a matcher delegate to the root and keep the
\* endianness, for every reachable matcher, a bare catalog entry included: group
\* succeeds and gives a matcher of the same size whose root is a one-part composite
\* holding the old root under the name; named and with_names fail only with a
\* validation error.
C7_Delegation ==
    [][/\ \A name \in Labels :
             (last'.op = "group" /\ Group(name)) =>
                /\ last'.exc = None
                /\ val(1)'.endian = val(1).endian
                /\ structure_size(val(1)') = structure_size(val(1))
                /\ val(1)'.components.cls = "Components"
                /\ val(1)'.components.parts = <<root(1)>>
                /\ val(1)'.components.names = <<name>>
       /\ \A name \in Labels :
             (last'.op = "named" /\ Named(name)) =>
                /\ last'.exc \in {None, ValueError}
                /\ val(1)'.endian = val(1).endian
       /\ \A names \in NameArgs :
             (last'.op = "with_names" /\ WithNames(names)) =>
                /\ last'.exc \in {None, ValueError}
                /\ val(1)'.endian = val(1).endian]_vars

\* C8: for n >= 1, x.repeat(n).size = x.size * n, for an atom, a composite and a
\* matcher; n is appended to the shape and nothing else changes.
C8_RepeatSize ==
    [][\A n \in RepeatCounts :
          (last'.op = "mul" /\ n >= 1 /\ Mul(n)) =>
             LET x == root(1)
                 y == val(1)'.components
             IN  /\ last'.exc = None
                 /\ size(y) = size(x) * n
                 /\ structure_size(val(1)') = structure_size(val(1)) * n
                 /\ y.shape = x.shape \o <<n>>
                 /\ y.cls = x.cls
                 /\ x.cls = "Atom" => y.typecode = x.typecode
                 /\ x.cls = "Components" => (y.parts = x.parts /\ y.names = x.names)
                 /\ val(1)'.endian = val(1).endian]_vars

\* A composite that was already repeated was repeated MaxCount times more and is
\* that many times its former size.
C8_Witness ==
    /\ last.op = "mul"
    /\ last.exc = None
    /\ root(1).cls = "Components"
    /\ root(1).shape = <<MaxCount, MaxCount>>
    /\ size(root(1)) = MaxCount * MaxCount * SumSizes(root(1).parts)
    /\ size(root(1)) > MaxCount * MaxCount

\* C9: the rendering of a + b, for compatible catalog entries, has three lines: a
\* header starting with an endianness word and '-endian' and containing 'structure',
\* then '0:' with a's description and '1:' with b's.
C9_PairRendering ==
    lines # None =>
       LET ls == lines[1] IN
       /\ Len(ls) = 3
       /\ \E e \in DOMAIN EndianWord :
             StartsWith(ls[1], EndianWord[e] \o <<"-", "e", "n", "d", "i", "a", "n">>)
       /\ Contains(ls[1], <<"s", "t", "r", "u", "c", "t", "u", "r", "e">>)
       /\ StartsWith(ls[2], <<"0", ":">>)
       /\ Contains(ls[2], atom_str(Member(first).components))
       /\ StartsWith(ls[3], <<"1", ":">>)
       /\ Contains(ls[3], atom_str(Member(second).components))

\* u1 + d was rendered: a little-endian header, then '0: signed byte' and
\* '1: double'.
C9_Witness ==
    /\ lines # None
    /\ first = "u1"
    /\ second = "d"
    /\ lines[1][1] = <<"l", "i", "t", "t", "l", "e">> \o
                     <<"-", "e", "n", "d", "i", "a", "n", " ", "m", "a", "t", "c", "h", "e", "r", " ", "f", "o", "r">> \o
                     <<" ", "s", "t", "r", "u", "c", "t", "u", "r", "e", " ">> \o
                     <<"(", "o", "f", "f", "s", "e", "t", "=", "0", ",", " ", "p", "a", "d", "d", "i", "n", "g", "=", "0", ")", ":">>
    /\ lines[1][2] = <<"0", ":", " ", "s", "i", "g", "n", "e", "d", " ", "b", "y", "t", "e">>
    /\ lines[1][3] = <<"1", ":", " ", "d", "o", "u", "b", "l", "e">>

\* the number of parts an operand of + gives to the sum
Given(x) == IF x.cls = "Atom" \/ x.shape # <<>> THEN 1 ELSE Len(x.parts)

====
